---- MODULE Spec2Model ----
(***************************************************************************)
(* Model of task_sdk/src/airflow/sdk/log.py: the configure/reset lifecycle *)
(* of the process-wide logging configuration (configure_logging,           *)
(* reset_logging, the memoized logging_processors builder, the warning     *)
(* bridge _showwarning) and the field processors applied to every event.   *)
(*                                                                         *)
(* configure_logging is called with cache_logger_on_first_use left at its  *)
(* default, so a memoization key is (enable_pretty_log, log_level, output).*)
(* Object identity is a number: every run of the body of                   *)
(* logging_processors makes objects of a new number.                       *)
(***************************************************************************)
EXTENDS Integers, Sequences, FiniteSets, TLC

VARIABLES
    showwarning,            \* warnings.showwarning, the runtime warning handler
    saved_showwarning,      \* the module global _warnings_showwarning
    configure_cache,        \* argument tuples memoized by @cache on configure_logging
    processors_cache,       \* results memoized by @cache on logging_processors, per mode
    nextObj,                \* number of pipelines built so far (object identity)
    has_exc_group,          \* hasattr(__builtins__, "BaseExceptionGroup") in this run
    structlog_cfg,          \* what structlog.configure was last given
    stdlib_cfg,             \* what logging.config.dictConfig last installed
    last,                   \* the most recent lifecycle call and how it ended
    succeeded,              \* argument tuples of successful calls since the last reset
    first_pipe,             \* per argument tuple: pipeline in use after its first success
    built_for,              \* per mode: the pipelines wired in so far
    emitted,                \* what the most recent logging call delivered
    in_flight,              \* sys.exc_info(): the failure being handled, if any
    proc_name,              \* the field processor applied to proc_in, if any
    proc_in,                \* an event handed to one field processor
    proc_out,               \* the event that processor returned
    threads,                \* per concurrent caller of configure_logging: its position
    handler                 \* one StdBinaryStreamHandler.emit call and its stream

vars == <<showwarning, saved_showwarning, configure_cache, processors_cache, nextObj,
          has_exc_group, structlog_cfg, stdlib_cfg, last, succeeded, first_pipe,
          built_for, emitted, in_flight, proc_name, proc_in, proc_out,
          threads, handler>>

----------------------------------------------------------------------------
(* Inputs *)

\* Level names a caller may pass; "bogus" is not a key of NAME_TO_LEVEL.
LevelNames == {"DEBUG", "Info", "bogus"}

\* The output argument: None or a binary stream.
Outputs == {"None", "out"}

Modes == BOOLEAN

\* Upper bound on the pipelines ever built in one run.
MaxObjects == 4

\* Handlers warnings.showwarning can name: the one in place at import, the
\* bridge, or None.
ORIG == "orig"
BRIDGE == "_showwarning"
NONE == "None"

----------------------------------------------------------------------------
(* Level names: str.lower, str.upper and structlog.stdlib.NAME_TO_LEVEL *)

Lower(s) ==
    CASE s = "DEBUG" -> "debug"
      [] s \in {"Info", "INFO"} -> "info"
      [] s = "WARNING" -> "warning"
      [] OTHER       -> s

Upper(s) ==
    CASE s = "DEBUG" -> "DEBUG"
      [] s = "Info"  -> "INFO"
      [] s = "bogus" -> "BOGUS"
      [] OTHER       -> s

\* structlog.stdlib.NAME_TO_LEVEL; 0 stands for a missing key (KeyError).
NAME_TO_LEVEL(s) ==
    CASE s = "critical"  -> 50
      [] s = "exception" -> 40
      [] s = "error"     -> 40
      [] s = "warn"      -> 30
      [] s = "warning"   -> 30
      [] s = "info"      -> 20
      [] s = "debug"     -> 10
      [] OTHER           -> 0

----------------------------------------------------------------------------
(* logging_processors: the memoized pipeline builder *)

NoPipe == [id |-> 0, pretty |-> FALSE, processors |-> << >>, named |-> {}]

\* The list as it would be with redact_jwt appended after the exception
\* formatter instead of before stack-info rendering.
ProcessorList_RedactLate(enable_pretty_log, hasGroup) ==
    LET common == << "timestamper", "merge_contextvars", "add_log_level",
                     "PositionalArgumentsFormatter", "logger_name",
                     "StackInfoRenderer" >>
    IN  IF enable_pretty_log
        THEN common \o << "redact_jwt", "console" >>
        ELSE (IF hasGroup THEN Append(common, "exc_group_processor") ELSE common)
             \o << "dict_tracebacks", "redact_jwt", "UnicodeDecoder", "JSONRenderer" >>

\* The processor list built for one mode (lines 134-142, 175, 193-215).
ProcessorList(enable_pretty_log, hasGroup) ==
    LET common == << "timestamper", "merge_contextvars", "add_log_level",
                     "PositionalArgumentsFormatter", "logger_name", "redact_jwt",
                     "StackInfoRenderer" >>
    IN  IF enable_pretty_log
        THEN Append(common, "console")
        ELSE (IF hasGroup THEN Append(common, "exc_group_processor") ELSE common)
             \o << "dict_tracebacks", "UnicodeDecoder", "JSONRenderer" >>

\* The handles returned beside the list (lines 176-179, 217-222); a handle
\* whose value is None (exc_group_processor without exception groups) is
\* left out of the set.
NamedHandles(enable_pretty_log, hasGroup) ==
    IF enable_pretty_log
    THEN {"timestamper", "console"}
    ELSE {"timestamper", "dict_tracebacks", "json"}
         \cup (IF hasGroup THEN {"exc_group_processor"} ELSE {})

\* One execution of the body of logging_processors: fresh objects, numbered id.
BuildPipeline(enable_pretty_log, hasGroup, id) ==
    [id |-> id, pretty |-> enable_pretty_log,
     processors |-> ProcessorList(enable_pretty_log, hasGroup),
     named |-> NamedHandles(enable_pretty_log, hasGroup)]

\* The builder as it would be without @cache.
logging_processors_Uncached(enable_pretty_log) ==
    BuildPipeline(enable_pretty_log, has_exc_group, nextObj + 1)

\* @cache: the stored result for the mode if there is one, else a new build.
logging_processors(enable_pretty_log) ==
    IF processors_cache[enable_pretty_log] # NoPipe
    THEN processors_cache[enable_pretty_log]
    ELSE BuildPipeline(enable_pretty_log, has_exc_group, nextObj + 1)

----------------------------------------------------------------------------
(* configure_logging *)

NoStructlog == [pipe |-> NoPipe, lvl |-> 0, factory |-> "unset"]
NoStdlib == [formatter |-> "unset", pre_chain |-> << >>, chain |-> << >>,
             pipe |-> 0, handler |-> "unset", level |-> "unset"]
\* No logging call made since the last lifecycle call.
NotEmitted == [path |-> "none", method |-> "", logger |-> "", input |-> << >>,
               reached |-> FALSE, event |-> << >>, renderer |-> "", sink |-> ""]

\* No StdBinaryStreamHandler.emit call made yet.
NoEmit == [pc |-> "idle", record |-> << >>, msg |-> << >>, buffer |-> << >>,
           ops |-> << >>, written |-> << >>, error |-> "none", failed_in |-> "none",
           handled |-> << >>, emits |-> 0]
\* No caller is inside configure_logging on a thread of its own.
NoThreads == << >>

NoCall == [op |-> "none", pretty |-> FALSE, level |-> "", output |-> "None",
           outcome |-> "none", prev |-> "none", had_pipe |-> FALSE,
           handler_before |-> "orig"]

\* The record kept in last for one configure_logging call.
Call(pretty, level, output, outcome) ==
    [op |-> "configure", pretty |-> pretty, level |-> level, output |-> output,
     outcome |-> outcome, prev |-> last.op,
     had_pipe |-> built_for[pretty] # {}, handler_before |-> showwarning]

\* Line 233: the mode/destination precondition.
InvalidCombination_Unchecked(enable_pretty_log, output) == FALSE

\* The precondition as it would be if structured mode needed a stream.
InvalidCombination_RequiresOutput(enable_pretty_log, output) ==
    \/ enable_pretty_log /\ output # "None"
    \/ ~enable_pretty_log /\ output = "None"

InvalidCombination(enable_pretty_log, output) ==
    enable_pretty_log /\ output # "None"

\* Lines 245-251, 282-284: the foreign_pre_chain of both formatters.
PreChain(pipe) ==
    << "stdlib.add_log_level", "add_logger_name", "timestamper" >>
    \o (IF pipe.pretty THEN << >>
        ELSE (IF "exc_group_processor" \in pipe.named
              THEN << "exc_group_processor" >> ELSE << >>)
             \o << "dict_tracebacks" >>)

\* Lines 257-264, 273, 285-286: the processors of the formatter in use
\* ("colored" in pretty mode, "plain" otherwise).
FormatterChain(pipe) ==
    << "remove_processors_meta", "drop_positional_args" >>
    \o (IF pipe.pretty THEN << "console" >> ELSE << "json_processor" >>)

\* Lines 266-280: structlog.configure.
StructlogConfigure(pipe, lvl, output) ==
    [pipe |-> pipe, lvl |-> lvl,
     factory |-> IF pipe.pretty THEN "default" ELSE "bytes:" \o output]

\* Lines 295-339: logging.config.dictConfig.
DictConfig(pipe, log_level, output) ==
    [formatter |-> IF pipe.pretty THEN "colored" ELSE "plain",
     pre_chain |-> PreChain(pipe),
     chain |-> FormatterChain(pipe),
     pipe |-> pipe.id,
     handler |-> IF output # "None" THEN "to_supervisor" ELSE "default",
     level |-> Upper(log_level)]

\* Lines 288-293: install the warning bridge unless a handler is saved.
InstallBridge ==
    IF saved_showwarning = NONE
    THEN /\ saved_showwarning' = showwarning
         /\ showwarning' = BRIDGE
    ELSE UNCHANGED <<showwarning, saved_showwarning>>

\* A call that raises: nothing but the record of the call changes.
Raises(enable_pretty_log, log_level, output, error) ==
    /\ last' = Call(enable_pretty_log, log_level, output, error)
    /\ UNCHANGED <<showwarning, saved_showwarning, configure_cache,
                   processors_cache, nextObj, structlog_cfg, stdlib_cfg,
                   succeeded, first_pipe, built_for>>

configure_logging(enable_pretty_log, log_level, output) ==
    LET key == <<enable_pretty_log, log_level, output>> IN
    /\ emitted' = NotEmitted
    /\ UNCHANGED <<has_exc_group, in_flight, proc_name, proc_in, proc_out,
                   threads, handler>>
    /\ IF key \in configure_cache
       THEN \* functools.cache hit: the body does not run
            /\ last' = Call(enable_pretty_log, log_level, output, "cached")
            /\ succeeded' = succeeded \cup {key}
            /\ UNCHANGED <<showwarning, saved_showwarning, configure_cache,
                           processors_cache, nextObj, structlog_cfg, stdlib_cfg,
                           first_pipe, built_for>>
       ELSE IF InvalidCombination(enable_pretty_log, output)
       THEN Raises(enable_pretty_log, log_level, output, "ValueError")
       ELSE IF NAME_TO_LEVEL(Lower(log_level)) = 0
       THEN Raises(enable_pretty_log, log_level, output, "KeyError")
       ELSE LET pipe == logging_processors(enable_pretty_log)
                lvl == NAME_TO_LEVEL(Lower(log_level))
            IN  /\ pipe.id <= MaxObjects
                /\ processors_cache' =
                       [processors_cache EXCEPT ![enable_pretty_log] = pipe]
                /\ nextObj' = IF pipe.id > nextObj THEN pipe.id ELSE nextObj
                /\ structlog_cfg' = StructlogConfigure(pipe, lvl, output)
                /\ InstallBridge
                /\ stdlib_cfg' = DictConfig(pipe, log_level, output)
                /\ configure_cache' = configure_cache \cup {key}
                /\ last' = Call(enable_pretty_log, log_level, output, "built")
                /\ succeeded' = succeeded \cup {key}
                /\ first_pipe' = IF key \in succeeded THEN first_pipe
                                 ELSE [first_pipe EXCEPT ![key] = pipe.id]
                /\ built_for' = [built_for EXCEPT ![enable_pretty_log] = @ \cup {pipe.id}]

----------------------------------------------------------------------------
(* reset_logging *)

\* reset_logging as it would be if it also cleared logging_processors' cache.
reset_logging_ClearsBuilder ==
    /\ showwarning' = saved_showwarning
    /\ configure_cache' = {}
    /\ processors_cache' = [m \in Modes |-> NoPipe]
    /\ last' = [NoCall EXCEPT !.op = "reset", !.outcome = "ok", !.prev = last.op,
                              !.handler_before = showwarning]
    /\ succeeded' = {}
    /\ first_pipe' = [k \in DOMAIN first_pipe |-> 0]
    /\ UNCHANGED <<saved_showwarning, nextObj, has_exc_group,
                   structlog_cfg, stdlib_cfg, built_for,
                   in_flight, proc_name, proc_in, proc_out,
                   threads, handler>>
    /\ emitted' = NotEmitted

reset_logging ==
    /\ showwarning' = saved_showwarning
    /\ configure_cache' = {}
    /\ last' = [NoCall EXCEPT !.op = "reset", !.outcome = "ok", !.prev = last.op,
                              !.handler_before = showwarning]
    /\ succeeded' = {}
    /\ first_pipe' = [k \in DOMAIN first_pipe |-> 0]
    /\ UNCHANGED <<saved_showwarning, processors_cache, nextObj, has_exc_group,
                   structlog_cfg, stdlib_cfg, built_for,
                   in_flight, proc_name, proc_in, proc_out,
                   threads, handler>>
    /\ emitted' = NotEmitted

----------------------------------------------------------------------------
(* Events: insertion-ordered mappings from field name to value *)

\* Most fields an enumerated event carries.
MaxFields == 2

\* A value is a type tag with a payload; a string's payload is its characters.
Str(chars) == [t |-> "str", s |-> chars]
V_none == [t |-> "NoneType", s |-> << >>]
V_true == [t |-> "bool", s |-> << "True" >>]
V_false == [t |-> "bool", s |-> << "False" >>]

EYJ == << "e", "y", "J" >>
REDACTED == Str(<< "e", "y", "J", "*", "*", "*" >>)
TOKEN == << "e", "y", "J", "a", "b", "c" >>

\* An exception named n; a group named n with sub-failures subs (names); the
\* (type, value, traceback) tuple around an exception; a 2-tuple.
Exc(n) == [t |-> "exc", s |-> << n >>]
Group(n, subs) == [t |-> "group", s |-> << n >> \o subs]
Tuple3(e) == [t |-> "tuple3", s |-> << e.t >> \o e.s]
Tuple2 == [t |-> "tuple2", s |-> << >>]
IsTuple3(v) == v.t = "tuple3"
TupleValue(v) == [t |-> Head(v.s), s |-> Tail(v.s)]

\* bool(v)
Truthy(v) ==
    CASE v.t = "NoneType" -> FALSE
      [] v.t = "bool"     -> v = V_true
      [] v.t = "str"      -> v.s # << >>
      [] v.t = "bytes"    -> v.s # << >>
      [] v.t = "int"      -> v.s # << "0" >>
      [] OTHER            -> TRUE

StartsWith(s, prefix) ==
    Len(s) >= Len(prefix) /\ SubSeq(s, 1, Len(prefix)) = prefix

HasKey(ev, k) == \E i \in 1..Len(ev) : ev[i].k = k
IndexOf(ev, k) == CHOOSE i \in 1..Len(ev) : ev[i].k = k
\* dict.get(k, None)
Get(ev, k) == IF HasKey(ev, k) THEN ev[IndexOf(ev, k)].v ELSE V_none
\* del d[k] / d.pop(k, None): the other fields keep their order
Remove(ev, k) ==
    IF HasKey(ev, k)
    THEN SubSeq(ev, 1, IndexOf(ev, k) - 1) \o SubSeq(ev, IndexOf(ev, k) + 1, Len(ev))
    ELSE ev
\* d[k] = v: in place for a key already there, at the end for a new one
Set(ev, k, v) ==
    IF HasKey(ev, k)
    THEN [ev EXCEPT ![IndexOf(ev, k)] = [k |-> k, v |-> v]]
    ELSE Append(ev, [k |-> k, v |-> v])
\* d.setdefault(k, v)
SetDefault(ev, k, v) == IF HasKey(ev, k) THEN ev ELSE Set(ev, k, v)
KeysOf(ev) == [i \in 1..Len(ev) |-> ev[i].k]

----------------------------------------------------------------------------
(* The field processors of this module *)

\* Line 91: isinstance(v, str) and v.startswith("eyJ")
LooksLikeToken_AnyType(v) == StartsWith(v.s, EYJ)

LooksLikeToken(v) == v.t = "str" /\ StartsWith(v.s, EYJ)

\* Lines 89-93.
redact_jwt(ev) ==
    [i \in 1..Len(ev) |->
        IF LooksLikeToken(ev[i].v) THEN [k |-> ev[i].k, v |-> REDACTED] ELSE ev[i]]

\* Lines 83-86.
\* The processor as it would be with an assignment in place of setdefault.
logger_name_Overwrites(ev) ==
    LET name == Get(ev, "logger_name")
        popped == Remove(ev, "logger_name")
    IN  IF Truthy(name) THEN Set(popped, "logger", name) ELSE popped

\* The processor as it would be if it only removed the raw field.
logger_name_Discards(ev) == Remove(ev, "logger_name")

logger_name(ev) ==
    LET name == Get(ev, "logger_name")
        popped == Remove(ev, "logger_name")
    IN  IF Truthy(name) THEN SetDefault(popped, "logger", name) ELSE popped

\* Lines 96-98.
drop_positional_args(ev) == Remove(ev, "positional_args")

\* The format_exception handed to exception_group_tracebacks: the frame
\* records of one exception and of the exceptions chained to it ("e2" stands
\* for a failure raised from another).
format_exception(e) ==
    IF e.s[1] = "e2" THEN << "tb:e2", "tb:cause" >> ELSE << "tb:" \o e.s[1] >>

RECURSIVE FormatAll(_)
\* itertools.chain.from_iterable over the formatted exceptions (lines 71-76).
FormatAll(excs) ==
    IF excs = << >> THEN << >>
    ELSE format_exception(Head(excs)) \o FormatAll(Tail(excs))

\* group.exceptions
SubFailures(g) == [i \in 1..(Len(g.s) - 1) |-> Exc(g.s[i + 1])]

\* isinstance(x, BaseExceptionGroup): against the builtin class where line 44
\* found it, against the local stand-in class (which no failure is an
\* instance of) where it did not.
IsGroupInstance(x, hasGroup) == hasGroup /\ x.t = "group"

\* Lines 50-78: the processor exception_group_tracebacks returns.
exception_group_tracebacks(ev, hasGroup, current) ==
    LET raw == Get(ev, "exc_info")
        \* lines 53-57: True means the failure in flight, None if there is none
        exc_info == IF raw = V_true
                    THEN (IF current = V_none THEN V_none ELSE Tuple3(current))
                    ELSE raw
        isTupleGroup == IsTuple3(exc_info) /\ IsGroupInstance(TupleValue(exc_info), hasGroup)
        isGroup == IsGroupInstance(exc_info, hasGroup)
        group == IF isTupleGroup THEN TupleValue(exc_info) ELSE exc_info
    IN  IF Truthy(raw) /\ (isTupleGroup \/ isGroup)
        THEN Set(Remove(ev, "exc_info"), "exception",
                 [t |-> "list", s |-> FormatAll(Append(SubFailures(group), group))])
        ELSE ev

----------------------------------------------------------------------------
(* Enumerated events *)

FieldNames == {"event", "token", "logger_name", "logger", "exc_info", "exception",
               "positional_args"}

G2 == Group("g", << "e1", "e2" >>)
G13 == Group("k", << "e1", "e3" >>)

ValuesOf(k) ==
    CASE k = "event"       -> {Str(<< "h", "i" >>), Str(TOKEN)}
      [] k = "token"       -> {Str(TOKEN), REDACTED, Str(<< "x" >> \o EYJ), Str(<< "e", "y" >>),
                               [t |-> "bytes", s |-> TOKEN], [t |-> "dict", s |-> TOKEN],
                               [t |-> "int", s |-> << "7" >>]}
      [] k = "logger_name" -> {Str(<< "py.warnings" >>), Str(<< >>), V_none}
      [] k = "logger"      -> {Str(<< "root" >>), V_none}
      [] k = "exc_info"    -> {V_true, V_false, V_none, Exc("e1"), G2, G13,
                               Group("h", << "e2", "e1", "e3" >>),
                               Tuple3(G2), Tuple3(Exc("e1")), Tuple2}
      [] k = "exception"   -> {Str(<< "old" >>)}
      [] OTHER             -> {[t |-> "tuple", s |-> << "a" >>]}

Fields == UNION {{[k |-> k, v |-> v] : v \in ValuesOf(k)} : k \in FieldNames}

RECURSIVE EventsOfLen(_)
EventsOfLen(n) ==
    IF n = 0 THEN {<< >>}
    ELSE {Append(ev, f) : ev \in {e \in EventsOfLen(n - 1) : TRUE},
                          f \in Fields} \ {<< >>}

DistinctKeys(ev) == \A i, j \in 1..Len(ev) : ev[i].k = ev[j].k => i = j

Events == {ev \in UNION {EventsOfLen(n) : n \in 0..MaxFields} : DistinctKeys(ev)}

\* What sys.exc_info() can hold while a logging call runs.
InFlight == {V_none, Exc("e1"), G2}

----------------------------------------------------------------------------
(* The lifecycle specification *)

Keys == Modes \X LevelNames \X Outputs


InitLifecycle ==
    /\ showwarning = ORIG
    /\ saved_showwarning = NONE
    /\ configure_cache = {}
    /\ processors_cache = [m \in Modes |-> NoPipe]
    /\ nextObj = 0
    /\ has_exc_group \in BOOLEAN
    /\ structlog_cfg = NoStructlog
    /\ stdlib_cfg = NoStdlib
    /\ last = NoCall
    /\ succeeded = {}
    /\ first_pipe = [k \in Keys |-> 0]
    /\ built_for = [m \in Modes |-> {}]
    /\ emitted = NotEmitted

Init ==
    /\ InitLifecycle
    /\ in_flight = V_none
    /\ proc_name = "none"
    /\ proc_in = << >>
    /\ proc_out = << >>
    /\ threads = NoThreads
    /\ handler = NoEmit

Configure ==
    \E p \in Modes, l \in LevelNames, o \in Outputs : configure_logging(p, l, o)

Reset == reset_logging

Next == Configure \/ Reset

Spec == Init /\ [][Next]_vars

----------------------------------------------------------------------------
(* The processors of structlog the two chains name, and a logging call *)

\* structlog's map_method_name: the level an event logged by a method gets.
LevelOfMethod(method) ==
    CASE method = "warn"      -> "warning"
      [] method = "exception" -> "error"
      [] OTHER                -> method

RECURSIVE Substitute(_, _)
\* event % positional_args for one "%s" argument
Substitute(chars, arg) ==
    IF chars = << >> THEN << >>
    ELSE (IF Head(chars) = "%s" THEN arg ELSE << Head(chars) >>)
         \o Substitute(Tail(chars), arg)

\* structlog.stdlib.PositionalArgumentsFormatter (line 138)
PositionalArgumentsFormatter(ev) ==
    LET args == Get(ev, "positional_args")
        formatted == IF Truthy(args) /\ HasKey(ev, "event")
                     THEN Set(ev, "event", Str(Substitute(Get(ev, "event").s, args.s)))
                     ELSE ev
    IN  Remove(formatted, "positional_args")

\* structlog.processors.ExceptionRenderer (line 192): pops exc_info and, for
\* a failure, sets exception to its formatted frames.
dict_tracebacks(ev, current) ==
    LET raw == Get(ev, "exc_info")
        failure == IF raw = V_true THEN current
                   ELSE IF IsTuple3(raw) THEN TupleValue(raw)
                   ELSE raw
        popped == Remove(ev, "exc_info")
    IN  IF Truthy(raw) /\ failure.t \in {"exc", "group"}
        THEN Set(popped, "exception", [t |-> "list", s |-> format_exception(failure)])
        ELSE popped

\* structlog.processors.UnicodeDecoder (line 212): bytes values become str.
UnicodeDecoder(ev) ==
    [i \in 1..Len(ev) |->
        IF ev[i].v.t = "bytes" THEN [k |-> ev[i].k, v |-> Str(ev[i].v.s)] ELSE ev[i]]

\* One processor of a chain applied to an event. env: the method called, the
\* ambient context fields, the failure in flight, the emitting logger's name.
ApplyProcessor(name, ev, env) ==
    CASE name = "timestamper" -> SetDefault(ev, "timestamp", Str(<< "now" >>))
      [] name = "merge_contextvars" ->
             (IF env.ctx = << >> THEN ev
              ELSE SetDefault(ev, env.ctx[1].k, env.ctx[1].v))
      [] name \in {"add_log_level", "stdlib.add_log_level"} ->
             Set(ev, "level", Str(<< LevelOfMethod(env.method) >>))
      [] name = "PositionalArgumentsFormatter" -> PositionalArgumentsFormatter(ev)
      [] name = "logger_name" -> logger_name(ev)
      [] name = "redact_jwt" -> redact_jwt(ev)
      [] name = "StackInfoRenderer" ->
             (IF Truthy(Get(ev, "stack_info"))
              THEN Set(Remove(ev, "stack_info"), "stack", Str(<< "stack" >>))
              ELSE Remove(ev, "stack_info"))
      [] name = "exc_group_processor" ->
             exception_group_tracebacks(ev, has_exc_group, env.current)
      [] name = "dict_tracebacks" -> dict_tracebacks(ev, env.current)
      [] name = "UnicodeDecoder" -> UnicodeDecoder(ev)
      [] name = "add_logger_name" -> Set(ev, "logger", Str(<< env.logger >>))
      [] name = "remove_processors_meta" ->
             Remove(Remove(ev, "_record"), "_from_structlog")
      [] name = "drop_positional_args" -> drop_positional_args(ev)
      [] OTHER -> ev

RECURSIVE RunChain(_, _, _)
\* The processors of a chain applied in order.
RunChain(chain, ev, env) ==
    IF chain = << >> THEN ev
    ELSE RunChain(Tail(chain), ApplyProcessor(Head(chain), ev, env), env)

Front(seq) == SubSeq(seq, 1, Len(seq) - 1)
Last(seq) == seq[Len(seq)]

\* Events application code logs through structlog, as the bound logger
\* assembles them: bound values, keyword fields, then the message.
F(k, v) == [k |-> k, v |-> v]
HI == Str(<< "h", "i" >>)
LogEvents ==
    { << F("event", HI) >>,
      << F("token", Str(TOKEN)), F("event", HI) >>,
      << F("logger_name", Str(<< "py.warnings" >>)), F("event", Str(TOKEN)) >>,
      << F("exc_info", G2), F("event", HI) >>,
      << F("positional_args", [t |-> "tuple", s |-> TOKEN]),
         F("token", [t |-> "bytes", s |-> TOKEN]),
         F("event", Str(<< "t", "=", "%s" >>)) >> }
LogMethods == {"debug", "info"}
Contexts == {<< >>, << F("token", Str(TOKEN)) >>}

\* Records older call sites log through the stdlib logging module.
LegacyLoggers == {"airflow.task", "httpx", "other"}
LegacyLevels == {"DEBUG", "INFO", "WARNING"}
LegacyMessages == {HI, Str(TOKEN)}

\* logging's level numbers (lines 315, 330, 333, 335).
LevelNo(name) ==
    CASE name \in {"DEBUG", "debug"}       -> 10
      [] name \in {"INFO", "info"}         -> 20
      [] name \in {"WARN", "WARNING", "warning"} -> 30
      [] name \in {"ERROR", "error"}       -> 40
      [] OTHER                             -> 50

\* Lines 326-337: the level a stdlib logger's records must reach.
EffectiveLevel(logger) ==
    CASE logger = "airflow.task" -> LevelNo(stdlib_cfg.level)
      [] logger = "httpx"        -> LevelNo("WARN")
      [] OTHER                   -> LevelNo("INFO")

\* What a call of a level method on a structlog logger delivers.
Delivered(method, ev, ctx) ==
    IF NAME_TO_LEVEL(method) < structlog_cfg.lvl
    THEN [NotEmitted EXCEPT !.path = "structlog", !.method = method, !.input = ev]
    ELSE [path |-> "structlog", method |-> method, logger |-> "", input |-> ev,
          reached |-> TRUE,
          event |-> RunChain(Front(structlog_cfg.pipe.processors), ev,
                             [method |-> method, ctx |-> ctx,
                              current |-> in_flight, logger |-> ""]),
          renderer |-> Last(structlog_cfg.pipe.processors),
          sink |-> structlog_cfg.factory]

\* A call of a level method on a structlog logger (lines 266-280): the
\* filtering wrapper class drops it below the level, else the processors run
\* and the renderer's output goes to the logger factory's stream.
EmitStructured(method, ev, ctx) ==
    /\ structlog_cfg # NoStructlog
    /\ emitted' = Delivered(method, ev, ctx)
    /\ UNCHANGED <<showwarning, saved_showwarning, configure_cache, processors_cache,
                   nextObj, has_exc_group, structlog_cfg, stdlib_cfg, last, succeeded,
                   first_pipe, built_for, in_flight, proc_name, proc_in, proc_out,
                   threads, handler>>

\* A record logged through the stdlib logging module (lines 295-339): the
\* logger's and the root handler's levels filter it, then ProcessorFormatter
\* runs foreign_pre_chain and the formatter's processors on it.
EmitLegacy(logger, levelname, msg) ==
    LET ev == << F("event", msg), F("_record", Str(<< logger >>)),
                 F("_from_structlog", V_false) >>
        method == LevelOfMethod(Lower(levelname))
    IN
    /\ stdlib_cfg # NoStdlib
    /\ emitted' =
         IF \/ LevelNo(levelname) < EffectiveLevel(logger)
            \/ LevelNo(levelname) < LevelNo(stdlib_cfg.level)
         THEN [NotEmitted EXCEPT !.path = "stdlib", !.method = method,
                                 !.logger = logger, !.input = ev]
         ELSE [path |-> "stdlib", method |-> method, logger |-> logger, input |-> ev,
               reached |-> TRUE,
               event |-> RunChain(stdlib_cfg.pre_chain \o Front(stdlib_cfg.chain), ev,
                                  [method |-> method, ctx |-> << >>,
                                   current |-> in_flight, logger |-> logger]),
               renderer |-> Last(stdlib_cfg.chain),
               sink |-> stdlib_cfg.handler]
    /\ UNCHANGED <<showwarning, saved_showwarning, configure_cache, processors_cache,
                   nextObj, has_exc_group, structlog_cfg, stdlib_cfg, last, succeeded,
                   first_pipe, built_for, in_flight, proc_name, proc_in, proc_out,
                   threads, handler>>

\* Warnings the runtime shows: the message, and whether a file was given.
WarningMessages == {HI, Str(TOKEN)}

\* The arguments of one showwarning call, file and line apart.
WarningArgs(message) ==
    << F("message", message), F("category", Str(<< "UserWarning" >>)),
       F("filename", Str(<< "f.py" >>)), F("lineno", [t |-> "int", s |-> << "7" >>]) >>

\* Lines 372-373: the event log.warning assembles from the logger's bound
\* logger_name, the keyword fields and the message.
WarningEvent(message) ==
    << F("logger_name", Str(<< "py.warnings" >>)),
       F("category", Str(<< "UserWarning" >>)),
       F("filename", Str(<< "f.py" >>)), F("lineno", [t |-> "int", s |-> << "7" >>]),
       F("event", message) >>

\* Lines 368-370: _showwarning called with a file. The saved handler gets
\* the same arguments; when the saved handler is the bridge itself the call
\* comes back here until the interpreter raises RecursionError; when none is
\* saved nothing is done.
Delegate(message) ==
    [NotEmitted EXCEPT !.path = "warning_file", !.input = WarningArgs(message),
                       !.event = IF saved_showwarning = NONE THEN << >>
                                 ELSE WarningArgs(message),
                       !.sink = IF saved_showwarning = NONE THEN "dropped"
                                ELSE IF saved_showwarning = BRIDGE THEN "RecursionError"
                                ELSE saved_showwarning]

\* Lines 351-373: the runtime shows a warning while the bridge is installed.
\* (With no file the bound logger of lines 266-280 takes the event.)
_showwarning(message, has_file) ==
    /\ showwarning = BRIDGE
    /\ emitted' = IF has_file THEN Delegate(message)
                  ELSE [Delivered("warning", WarningEvent(message), << >>)
                            EXCEPT !.path = "warning"]
    /\ UNCHANGED <<showwarning, saved_showwarning, configure_cache, processors_cache,
                   nextObj, has_exc_group, structlog_cfg, stdlib_cfg, last, succeeded,
                   first_pipe, built_for, in_flight, proc_name, proc_in, proc_out,
                   threads, handler>>

ShowWarning ==
    \E message \in WarningMessages, has_file \in BOOLEAN : _showwarning(message, has_file)

LogStructured ==
    \E m \in LogMethods, ev \in LogEvents, ctx \in Contexts : EmitStructured(m, ev, ctx)

LogLegacy ==
    \E n \in LegacyLoggers, l \in LegacyLevels, msg \in LegacyMessages :
        EmitLegacy(n, l, msg)

\* The configure_logging calls made between logging calls: structured to a
\* stream, pretty, structured without a stream, and the invalid combination.
LogConfigs == { <<FALSE, "DEBUG", "out">>, <<TRUE, "Info", "None">>,
                <<FALSE, "Info", "None">>, <<TRUE, "DEBUG", "out">> }

ConfigureLog == \E k \in LogConfigs : configure_logging(k[1], k[2], k[3])

NextLog == ConfigureLog \/ Reset \/ LogStructured \/ LogLegacy \/ ShowWarning

SpecLog == Init /\ [][NextLog]_vars

----------------------------------------------------------------------------
(* Claims about the lifecycle *)

Configured == last.op = "configure" /\ last.outcome \in {"built", "cached"}

\* C1: configure_logging with enable_pretty_log true and a non-null output
\* always ends in the configuration error, and the warning handler, the saved
\* handler, both memoization caches and both registered backends are exactly
\* as before the call.
C1_InvalidCombinationFailsFirst ==
    [][ (last'.op = "configure" /\ last'.pretty /\ last'.output # "None")
        => /\ last'.outcome = "ValueError"
           /\ UNCHANGED <<showwarning, saved_showwarning, configure_cache,
                          processors_cache, structlog_cfg, stdlib_cfg>> ]_vars

\* The invalid call was made while a configuration was in place.
C1_Witness ==
    /\ last.op = "configure" /\ last.pretty /\ last.output # "None"
    /\ last.outcome = "ValueError"
    /\ structlog_cfg # NoStructlog
    /\ showwarning = BRIDGE

\* C2: a configure_logging call repeating the arguments of an earlier
\* successful call, with no reset_logging in between, saves and substitutes no
\* warning handler, builds no new objects, and leaves in use the very Pipeline
\* that was in use after the first call with those arguments.
C2_RepeatedCallKeepsFirstPipeline ==
    [][ (last'.op = "configure" /\ <<last'.pretty, last'.level, last'.output>> \in succeeded)
        => /\ UNCHANGED <<showwarning, saved_showwarning, nextObj, processors_cache>>
           /\ structlog_cfg'.pipe.id
                  = first_pipe[<<last'.pretty, last'.level, last'.output>>] ]_vars

\* What holds of the repeated call: it changes nothing at all, so the Pipeline
\* in use is the one that was in use just before it.
C2_RepeatedCallChangesNothing ==
    [][ (last'.op = "configure" /\ <<last'.pretty, last'.level, last'.output>> \in succeeded)
        => /\ last'.outcome = "cached"
           /\ UNCHANGED <<showwarning, saved_showwarning, nextObj, processors_cache,
                          configure_cache, structlog_cfg, stdlib_cfg>> ]_vars

\* C3 as stated: the first configure_logging call after reset_logging wires in
\* a Pipeline that was never wired in before.
C3_ResetThenFreshPipeline ==
    [][ (last.op = "reset" /\ last'.op = "configure" /\ last'.outcome = "built")
        => structlog_cfg'.pipe.id \notin built_for[last'.pretty] ]_vars

\* C3 as amended: the first successful configure_logging call after
\* reset_logging runs the whole body again (it is never a cache hit, and both
\* backends are registered with this call's arguments), but where a Pipeline
\* had been built for the mode before the reset it wires in that same
\* instance: reset_logging does not invalidate logging_processors.
C3_ResetRerunsBodyKeepsPipeline ==
    [][ (last.op = "reset" /\ last'.op = "configure"
             /\ last'.outcome \notin {"ValueError", "KeyError"})
        => /\ last'.outcome = "built"
           /\ structlog_cfg'.pipe.pretty = last'.pretty
           /\ structlog_cfg'.lvl = NAME_TO_LEVEL(Lower(last'.level))
           /\ stdlib_cfg'.level = Upper(last'.level)
           /\ stdlib_cfg'.pipe = structlog_cfg'.pipe.id
           /\ (built_for[last'.pretty] # {}
                  => structlog_cfg'.pipe.id \in built_for[last'.pretty]) ]_vars

\* A configure that followed a reset and found a Pipeline of its mode.
C3_Witness ==
    /\ last.op = "configure" /\ last.outcome = "built"
    /\ last.prev = "reset" /\ last.had_pipe
    /\ structlog_cfg.pipe.id \in built_for[last.pretty]

\* C4: after every reset_logging call the runtime warning handler is the one
\* that was in place before the first configure_logging call.
C4_ResetRestoresOriginal ==
    last.op = "reset" => showwarning = ORIG

\* C5: whenever the most recent lifecycle call is a successful
\* configure_logging, the runtime warning handler is the bridge, the saved
\* reference is not the bridge, and after a reset the saved reference is the
\* handler that was current just before the call installed the bridge.
C5_ConfiguredMeansBridgeInstalled ==
    Configured
        => /\ showwarning = BRIDGE
           /\ saved_showwarning # BRIDGE
           /\ (last.prev = "reset" => saved_showwarning = last.handler_before)

----------------------------------------------------------------------------
(* The field processors, each applied once to an enumerated event *)

InitProc ==
    /\ InitLifecycle
    /\ in_flight \in InFlight
    /\ proc_name = "none"
    /\ proc_in \in Events
    /\ proc_out = << >>
    /\ threads = NoThreads
    /\ handler = NoEmit

Applied(name, result) ==
    /\ proc_name = "none"
    /\ proc_name' = name
    /\ proc_out' = result
    /\ UNCHANGED <<showwarning, saved_showwarning, configure_cache, processors_cache,
                   nextObj, has_exc_group, structlog_cfg, stdlib_cfg, last, succeeded,
                   first_pipe, built_for, emitted, in_flight, proc_in,
                   threads, handler>>

ApplyRedactJwt == Applied("redact_jwt", redact_jwt(proc_in))
ApplyLoggerName == Applied("logger_name", logger_name(proc_in))
ApplyDropPositionalArgs == Applied("drop_positional_args", drop_positional_args(proc_in))
ApplyExceptionGroupTracebacks ==
    Applied("exception_group_tracebacks",
            exception_group_tracebacks(proc_in, has_exc_group, in_flight))

NextProc ==
    \/ ApplyRedactJwt
    \/ ApplyLoggerName
    \/ ApplyDropPositionalArgs
    \/ ApplyExceptionGroupTracebacks

SpecProc == InitProc /\ [][NextProc]_vars

----------------------------------------------------------------------------
(* Claims about the field processors *)

\* C8: redact_jwt replaces each top-level string value starting with "eyJ" by
\* the literal "eyJ***", so that no top-level string of the result starts with
\* "eyJ" except that literal; every other field (non-string values, strings
\* without the prefix, nested values), the keys and their order are unchanged;
\* an event without such a field is returned identical.
C8_RedactionIsValueLocal ==
    proc_name = "redact_jwt"
        => /\ KeysOf(proc_out) = KeysOf(proc_in)
           /\ \A i \in 1..Len(proc_in) :
                 LET v == proc_in[i].v
                     isTok == v.t = "str" /\ Len(v.s) >= 3
                                 /\ v.s[1] = "e" /\ v.s[2] = "y" /\ v.s[3] = "J"
                 IN  /\ isTok => proc_out[i].v = REDACTED
                     /\ ~isTok => proc_out[i].v = v
           /\ \A i \in 1..Len(proc_out) :
                 (proc_out[i].v.t = "str" /\ StartsWith(proc_out[i].v.s, EYJ))
                     => proc_out[i].v = REDACTED
           /\ ((\A i \in 1..Len(proc_in) :
                   ~(proc_in[i].v.t = "str" /\ StartsWith(proc_in[i].v.s, EYJ)))
                  => proc_out = proc_in)

\* A token was redacted next to a nested value that holds one and was kept.
C8_Witness ==
    /\ proc_name = "redact_jwt"
    /\ Len(proc_in) = 2
    /\ proc_in[1].v = [t |-> "dict", s |-> TOKEN]
    /\ proc_in[2].v = Str(TOKEN)
    /\ proc_out[1].v = proc_in[1].v
    /\ proc_out[2].v = REDACTED

\* The failure the exc_info field of proc_in stands for: the value itself, the
\* value of a 3-tuple, or the failure in flight for the sentinel True.
FailureOf(ev) ==
    LET raw == Get(ev, "exc_info")
    IN  IF raw = V_true THEN in_flight
        ELSE IF raw.t = "tuple3" THEN [t |-> raw.s[1], s |-> Tail(raw.s)]
        ELSE raw

\* C9: for an event whose failure info is a group, exception_group_tracebacks
\* removes exc_info and sets exception to the formatted units of the
\* sub-failures in their order followed by the group's own; any other event
\* is returned unchanged.
C9_GroupsAreFlattened ==
    proc_name = "exception_group_tracebacks"
        => IF FailureOf(proc_in).t = "group"
           THEN LET g == FailureOf(proc_in)
                    subs == [i \in 1..(Len(g.s) - 1) |-> Exc(g.s[i + 1])]
                IN  /\ ~HasKey(proc_out, "exc_info")
                    /\ HasKey(proc_out, "exception")
                    /\ Get(proc_out, "exception").t = "list"
                    /\ Get(proc_out, "exception").s
                           = FormatAll(subs) \o format_exception(g)
                    /\ ((\A i \in 1..Len(g.s) : Len(format_exception(Exc(g.s[i]))) = 1)
                           => Len(Get(proc_out, "exception").s) = Len(subs) + 1)
           ELSE proc_out = proc_in

\* What holds where line 44 finds the builtin class: C9 as stated.
C9_FlattenedWhereBuiltinFound ==
    has_exc_group => C9_GroupsAreFlattened

----------------------------------------------------------------------------
(* Claims about the pipeline and the two backends *)

\* Where a processor stands in a list; 0 when it is not in it.
Pos(seq, name) ==
    IF \E i \in 1..Len(seq) : seq[i] = name
    THEN CHOOSE i \in 1..Len(seq) : seq[i] = name
    ELSE 0
Before(seq, a, b) == Pos(seq, a) > 0 /\ Pos(seq, b) > 0 /\ Pos(seq, a) < Pos(seq, b)
BuiltPipelines == {processors_cache[m] : m \in {x \in Modes : processors_cache[x] # NoPipe}}

\* C6: on either backend, a top-level string field of the logged event that
\* begins with "eyJ" reaches the terminal renderer as "eyJ***".
C6_BothBackendsRedact ==
    emitted.reached
        => \A i \in 1..Len(emitted.input) :
              (emitted.input[i].v.t = "str" /\ StartsWith(emitted.input[i].v.s, EYJ))
                  => /\ HasKey(emitted.event, emitted.input[i].k)
                     /\ Get(emitted.event, emitted.input[i].k) = REDACTED

\* What holds: the structured backend redacts; the legacy backend's chains
\* (foreign_pre_chain and the formatter's processors) hold no redact_jwt.
C6_StructuredBackendRedacts ==
    /\ (emitted.path = "structlog" => C6_BothBackendsRedact)
    /\ Pos(stdlib_cfg.pre_chain \o stdlib_cfg.chain, "redact_jwt") = 0

\* C7 as stated: every built Pipeline is the fixed list, with exception-group
\* flattening always part of the Structured one.
C7_FixedOrderWithFlattening ==
    \A p \in BuiltPipelines :
        p.processors =
            << "timestamper", "merge_contextvars", "add_log_level",
               "PositionalArgumentsFormatter", "logger_name", "redact_jwt",
               "StackInfoRenderer" >>
            \o (IF p.pretty THEN << "console" >>
                ELSE << "exc_group_processor", "dict_tracebacks", "UnicodeDecoder",
                        "JSONRenderer" >>)

\* C7 as amended: the list is the fixed one, except that exception-group
\* flattening is part of the Structured list only where
\* hasattr(__builtins__, "BaseExceptionGroup") holds; the terminal renderer is
\* last, redaction and logger-name normalization precede the Exception
\* Formatter, and the Exception Formatter precedes the terminal renderer.
C7_FixedOrder ==
    \A p \in BuiltPipelines :
        /\ p.processors =
            << "timestamper", "merge_contextvars", "add_log_level",
               "PositionalArgumentsFormatter", "logger_name", "redact_jwt",
               "StackInfoRenderer" >>
            \o (IF p.pretty THEN << "console" >>
                ELSE (IF has_exc_group THEN << "exc_group_processor" >> ELSE << >>)
                     \o << "dict_tracebacks", "UnicodeDecoder", "JSONRenderer" >>)
        /\ Last(p.processors) = (IF p.pretty THEN "console" ELSE "JSONRenderer")
        /\ ~p.pretty =>
              /\ Before(p.processors, "redact_jwt", "dict_tracebacks")
              /\ Before(p.processors, "logger_name", "dict_tracebacks")
              /\ Before(p.processors, "dict_tracebacks", "JSONRenderer")
        /\ Before(p.processors, "redact_jwt", Last(p.processors))
        /\ Before(p.processors, "logger_name", Last(p.processors))

\* Both Pipelines are built, the Structured one without the flattening step.
C7_Witness ==
    /\ processors_cache[TRUE] # NoPipe
    /\ processors_cache[FALSE] # NoPipe
    /\ Pos(processors_cache[FALSE].processors, "exc_group_processor") = 0
    /\ structlog_cfg.pipe = processors_cache[FALSE]

\* C10: after a successful configure_logging with minimum level L, a logging
\* call below L reaches no renderer and no sink on either backend, and a call
\* at or above L on the structured backend is emitted.
C10_FilteredByConfiguredLevel ==
    (Configured /\ emitted.path # "none")
        => /\ NAME_TO_LEVEL(emitted.method) < NAME_TO_LEVEL(Lower(last.level))
                 => ~emitted.reached
           /\ (emitted.path = "structlog"
                 /\ NAME_TO_LEVEL(emitted.method) >= NAME_TO_LEVEL(Lower(last.level)))
                 => emitted.reached

\* What holds: the filter is by the level of the call that last ran the body
\* of configure_logging, which both backends were registered with.
C10_FilteredByRegisteredLevel ==
    emitted.path # "none"
        => /\ NAME_TO_LEVEL(emitted.method) < structlog_cfg.lvl => ~emitted.reached
           /\ (emitted.path = "structlog" /\ NAME_TO_LEVEL(emitted.method) >= structlog_cfg.lvl)
                 => emitted.reached
           /\ LevelNo(stdlib_cfg.level) = structlog_cfg.lvl

----------------------------------------------------------------------------
(* configure_logging called from several threads at once *)

\* Callers racing through their first configure_logging call.
NThreads == 2
Threads == 1..NThreads

\* What a step of one thread leaves alone besides the state it names.
RaceFrame(t, pc, pipe) ==
    /\ threads' = [threads EXCEPT ![t].pc = pc, ![t].pipe = pipe]
    /\ UNCHANGED <<has_exc_group, last, succeeded, first_pipe, built_for, emitted,
                   in_flight, proc_name, proc_in, proc_out, handler>>

\* @cache on configure_logging looks the arguments up (no lock is held while
\* the body runs); on a miss the body starts with the checks of lines 233-236.
CallConfigure(t) ==
    LET me == threads[t] IN
    /\ me.pc = "call"
    /\ RaceFrame(t, IF me.key \in configure_cache THEN "done"
                    ELSE IF InvalidCombination(me.key[1], me.key[3]) THEN "raised"
                    ELSE IF NAME_TO_LEVEL(Lower(me.key[2])) = 0 THEN "raised"
                    ELSE "lookup_processors",
                 IF me.key \in configure_cache THEN structlog_cfg.pipe ELSE me.pipe)
    /\ UNCHANGED <<showwarning, saved_showwarning, configure_cache, processors_cache,
                   nextObj, structlog_cfg, stdlib_cfg>>

\* Line 242: @cache on logging_processors looks the mode up.
LookupProcessors(t) ==
    LET me == threads[t]
        hit == processors_cache[me.key[1]] # NoPipe
    IN
    /\ me.pc = "lookup_processors"
    /\ RaceFrame(t, IF hit THEN "structlog_configure" ELSE "build",
                 IF hit THEN processors_cache[me.key[1]] ELSE me.pipe)
    /\ UNCHANGED <<showwarning, saved_showwarning, configure_cache, processors_cache,
                   nextObj, structlog_cfg, stdlib_cfg>>

\* Lines 128-222: the body of logging_processors runs and makes new objects.
BuildProcessors(t) ==
    LET me == threads[t] IN
    /\ me.pc = "build"
    /\ nextObj' = nextObj + 1
    /\ RaceFrame(t, "store_processors",
                 BuildPipeline(me.key[1], has_exc_group, nextObj + 1))
    /\ UNCHANGED <<showwarning, saved_showwarning, configure_cache, processors_cache,
                   structlog_cfg, stdlib_cfg>>

\* @cache stores the result of the body it ran, over any entry stored since.
StoreProcessors(t) ==
    LET me == threads[t] IN
    /\ me.pc = "store_processors"
    /\ processors_cache' = [processors_cache EXCEPT ![me.key[1]] = me.pipe]
    /\ RaceFrame(t, "structlog_configure", me.pipe)
    /\ UNCHANGED <<showwarning, saved_showwarning, configure_cache, nextObj,
                   structlog_cfg, stdlib_cfg>>

\* Lines 266-280.
RaceStructlogConfigure(t) ==
    LET me == threads[t] IN
    /\ me.pc = "structlog_configure"
    /\ structlog_cfg' =
           StructlogConfigure(me.pipe, NAME_TO_LEVEL(Lower(me.key[2])), me.key[3])
    /\ RaceFrame(t, "bridge_test", me.pipe)
    /\ UNCHANGED <<showwarning, saved_showwarning, configure_cache, processors_cache,
                   nextObj, stdlib_cfg>>

\* Line 290: the test of _warnings_showwarning.
BridgeTest(t) ==
    LET me == threads[t] IN
    /\ me.pc = "bridge_test"
    /\ RaceFrame(t, IF saved_showwarning = NONE THEN "bridge_save" ELSE "dict_config",
                 me.pipe)
    /\ UNCHANGED <<showwarning, saved_showwarning, configure_cache, processors_cache,
                   nextObj, structlog_cfg, stdlib_cfg>>

\* Line 291: _warnings_showwarning = warnings.showwarning.
BridgeSave(t) ==
    LET me == threads[t] IN
    /\ me.pc = "bridge_save"
    /\ saved_showwarning' = showwarning
    /\ RaceFrame(t, "bridge_set", me.pipe)
    /\ UNCHANGED <<showwarning, configure_cache, processors_cache, nextObj,
                   structlog_cfg, stdlib_cfg>>

\* Line 293: warnings.showwarning = _showwarning.
BridgeSet(t) ==
    LET me == threads[t] IN
    /\ me.pc = "bridge_set"
    /\ showwarning' = BRIDGE
    /\ RaceFrame(t, "dict_config", me.pipe)
    /\ UNCHANGED <<saved_showwarning, configure_cache, processors_cache, nextObj,
                   structlog_cfg, stdlib_cfg>>

\* Lines 295-339.
RaceDictConfig(t) ==
    LET me == threads[t] IN
    /\ me.pc = "dict_config"
    /\ stdlib_cfg' = DictConfig(me.pipe, me.key[2], me.key[3])
    /\ RaceFrame(t, "store_call", me.pipe)
    /\ UNCHANGED <<showwarning, saved_showwarning, configure_cache, processors_cache,
                   nextObj, structlog_cfg>>

\* The body returned: @cache on configure_logging stores the arguments.
StoreCall(t) ==
    LET me == threads[t] IN
    /\ me.pc = "store_call"
    /\ configure_cache' = configure_cache \cup {me.key}
    /\ RaceFrame(t, "done", me.pipe)
    /\ UNCHANGED <<showwarning, saved_showwarning, processors_cache, nextObj,
                   structlog_cfg, stdlib_cfg>>

\* Every thread is about to make the same first call.
InitRace ==
    /\ InitLifecycle
    /\ in_flight = V_none
    /\ proc_name = "none"
    /\ proc_in = << >>
    /\ proc_out = << >>
    /\ handler = NoEmit
    /\ \E k \in Keys :
           threads = [t \in Threads |-> [pc |-> "call", key |-> k, pipe |-> NoPipe]]

NextRace ==
    \/ \E t \in Threads : CallConfigure(t)
    \/ \E t \in Threads : LookupProcessors(t)
    \/ \E t \in Threads : BuildProcessors(t)
    \/ \E t \in Threads : StoreProcessors(t)
    \/ \E t \in Threads : RaceStructlogConfigure(t)
    \/ \E t \in Threads : BridgeTest(t)
    \/ \E t \in Threads : BridgeSave(t)
    \/ \E t \in Threads : BridgeSet(t)
    \/ \E t \in Threads : RaceDictConfig(t)
    \/ \E t \in Threads : StoreCall(t)

SpecRace == InitRace /\ [][NextRace]_vars

\* C11: when every one of several callers racing through the same first
\* configure_logging call has returned, exactly one Pipeline was built and
\* every caller holds the same Pipeline instance.
C11_OneBuildUnderRace ==
    (threads # NoThreads /\ \A t \in DOMAIN threads : threads[t].pc = "done")
        => /\ nextObj = 1
           /\ \A t, u \in DOMAIN threads : threads[t].pipe = threads[u].pipe

----------------------------------------------------------------------------
(* StdBinaryStreamHandler.emit, one statement at a time *)

\* Most emit calls made on the handler in one run.
MaxEmits == 2

\* Messages of the records handed to emit, as characters: ASCII letters, a
\* line feed, a two-byte letter and a lone surrogate (which UTF-8 cannot encode).
EmitRecords == { << "h", "i" >>, << "e_acute" >>, << "surrogate_dc80", "h" >>,
                 << "h", "LF" >>, << >> }

\* self.format(record): the formatter's text for the record, here the
\* message between the braces of the rendered object.
Format(record) == << "{" >> \o record \o << "}" >>

Encodable(ch) == ch # "surrogate_dc80"

\* The UTF-8 bytes of one character.
Utf8(ch) ==
    CASE ch = "h" -> << 104 >>
      [] ch = "i" -> << 105 >>
      [] ch = "{" -> << 123 >>
      [] ch = "}" -> << 125 >>
      [] ch = "LF" -> << 10 >>
      [] ch = "e_acute" -> << 195, 169 >>

\* errors="backslashreplace": the ASCII escape \udc80 of the character.
Backslashreplace(ch) == << 92, 117, 100, 99, 56, 48 >>

RECURSIVE EncodeUtf8(_)
\* bytearray(msg, "utf-8", "backslashreplace") (line 112)
EncodeUtf8(msg) ==
    IF msg = << >> THEN << >>
    ELSE (IF Encodable(Head(msg)) THEN Utf8(Head(msg)) ELSE Backslashreplace(Head(msg)))
         \o EncodeUtf8(Tail(msg))

\* The buffer as it would be without line 113.
AppendNewline_Missing(buffer) == buffer

\* buffer += b"\n" (line 113)
AppendNewline(buffer) == buffer \o << 10 >>

\* The except clauses as they would be with RecursionError not singled out.
ExceptClause_HandlesAll(error) == "handleError"

\* Lines 119-122: which except clause takes a failure raised in the try block.
ExceptClause(error) ==
    IF error = "RecursionError" THEN "raise" ELSE "handleError"

\* What is raised inside the try block is an Exception; RecursionError is
\* the subclass the first except clause names.
Failures == {"Exception", "RecursionError"}

EmitFrame ==
    UNCHANGED <<showwarning, saved_showwarning, configure_cache, processors_cache,
                nextObj, has_exc_group, structlog_cfg, stdlib_cfg, last, succeeded,
                first_pipe, built_for, emitted, in_flight, proc_name, proc_in,
                proc_out, threads>>

\* logging calls handler.emit(record) (line 109).
EmitCall(record) ==
    /\ handler.pc \in {"idle", "returned", "handled", "raised"}
    /\ handler.emits < MaxEmits
    /\ handler' = [NoEmit EXCEPT !.pc = "format", !.record = record,
                                 !.emits = handler.emits + 1]
    /\ EmitFrame

\* Line 111
EmitFormat ==
    /\ handler.pc = "format"
    /\ handler' = [handler EXCEPT !.pc = "encode", !.msg = Format(handler.record),
                                  !.ops = Append(@, "format")]
    /\ EmitFrame

\* Line 112
EmitEncode ==
    /\ handler.pc = "encode"
    /\ handler' = [handler EXCEPT !.pc = "newline", !.buffer = EncodeUtf8(handler.msg),
                                  !.ops = Append(@, "encode")]
    /\ EmitFrame

\* Line 113
EmitNewline ==
    /\ handler.pc = "newline"
    /\ handler' = [handler EXCEPT !.pc = "write", !.buffer = AppendNewline(@),
                                  !.ops = Append(@, "newline")]
    /\ EmitFrame

\* Lines 115-116
EmitWrite ==
    /\ handler.pc = "write"
    /\ handler' = [handler EXCEPT !.pc = "flush", !.written = Append(@, handler.buffer),
                                  !.ops = Append(@, "write")]
    /\ EmitFrame

\* Line 117
EmitFlush ==
    /\ handler.pc = "flush"
    /\ handler' = [handler EXCEPT !.pc = "returned", !.ops = Append(@, "flush")]
    /\ EmitFrame

\* The statement about to run raises instead.
EmitFails(error) ==
    /\ handler.pc \in {"format", "encode", "newline", "write", "flush"}
    /\ handler' = [handler EXCEPT !.pc = "except", !.error = error,
                                  !.failed_in = handler.pc]
    /\ EmitFrame

\* Lines 118-122: re-raise to the caller, or handleError(record) and return.
EmitExcept ==
    /\ handler.pc = "except"
    /\ handler' = IF ExceptClause(handler.error) = "raise"
                  THEN [handler EXCEPT !.pc = "raised"]
                  ELSE [handler EXCEPT !.pc = "handled",
                                       !.handled = Append(@, handler.record)]
    /\ EmitFrame

NextEmit ==
    \/ \E record \in EmitRecords : EmitCall(record)
    \/ EmitFormat
    \/ EmitEncode
    \/ EmitNewline
    \/ EmitWrite
    \/ EmitFlush
    \/ \E error \in Failures : EmitFails(error)
    \/ EmitExcept

SpecEmit == Init /\ [][NextEmit]_vars

EmitEnded == handler.pc \in {"returned", "handled", "raised"}

\* C12: a failure raised while formatting, encoding, writing or flushing a
\* record ends the emit call in handleError for that record, called once,
\* and the call returns; a RecursionError ends it by propagating to the
\* caller with handleError never called; without a failure handleError is
\* not called.
C12_OnlyRecursionErrorEscapes ==
    EmitEnded
        => /\ handler.error = "Exception"
                => handler.pc = "handled" /\ handler.handled = << handler.record >>
           /\ handler.error = "RecursionError"
                => handler.pc = "raised" /\ handler.handled = << >>
           /\ handler.error = "none"
                => handler.pc = "returned" /\ handler.handled = << >>

\* A write that failed was handed to handleError after format, encode and
\* the newline had run.
C12_Witness ==
    /\ handler.pc = "handled"
    /\ handler.failed_in = "write"
    /\ handler.ops = << "format", "encode", "newline" >>
    /\ handler.handled = << handler.record >>

RECURSIVE Utf8OfText(_)
\* The UTF-8 bytes of a text every character of which UTF-8 can encode.
Utf8OfText(text) ==
    IF text = << >> THEN << >> ELSE Utf8(Head(text)) \o Utf8OfText(Tail(text))

\* C13: an emit call that returns without a failure ran format, encode,
\* append newline, write, flush in this order; it issued one write, whose
\* payload is the bytes of the formatted record followed by the one byte 10
\* (the UTF-8 bytes when every character can be encoded, and in every case
\* the encoder's bytes), and the flush came after the write.
C13_OneWriteThenFlush ==
    (handler.pc = "returned")
        => /\ handler.ops = << "format", "encode", "newline", "write", "flush" >>
           /\ Len(handler.written) = 1
           /\ handler.msg = Format(handler.record)
           /\ handler.written[1] = EncodeUtf8(handler.msg) \o << 10 >>
           /\ (\A i \in 1..Len(handler.msg) : Encodable(handler.msg[i]))
                => handler.written[1] = Utf8OfText(handler.msg) \o << 10 >>

\* A record with a two-byte letter went out as one line.
C13_Witness ==
    /\ handler.pc = "returned"
    /\ handler.record = << "e_acute" >>
    /\ handler.written = << << 123, 195, 169, 125, 10 >> >>

----------------------------------------------------------------------------
(* The warning bridge *)

\* C14: while the bridge is installed, a warning shown with a file goes to
\* the saved handler with the same arguments and makes no structured event;
\* a warning shown without a file makes one structured event of level
\* "warning" and logger "py.warnings" carrying the category name, the source
\* file and the line number, and the saved handler is not called.
C14_BridgeDispatch ==
    /\ emitted.path = "warning_file"
          => /\ emitted.sink \notin {"dropped", "RecursionError"}
             /\ emitted.sink = saved_showwarning
             /\ emitted.event = emitted.input
             /\ ~emitted.reached
    /\ emitted.path = "warning"
          => /\ emitted.reached
             /\ Get(emitted.event, "level") = Str(<< "warning" >>)
             /\ Get(emitted.event, "logger") = Str(<< "py.warnings" >>)
             /\ \A k \in {"category", "filename", "lineno"} :
                    HasKey(emitted.event, k)
                    /\ Get(emitted.event, k) = Get(emitted.input, k)
             /\ emitted.sink = structlog_cfg.factory

\* What holds: the dispatch is as C14 states whenever the saved handler is
\* the one that was in place at import.
C14_DispatchWhenOriginalSaved ==
    saved_showwarning = ORIG => C14_BridgeDispatch

----------------------------------------------------------------------------
(* Structured mode and its destination *)

StructuredLine ==
    /\ emitted.path \in {"structlog", "warning"}
    /\ emitted.reached
    /\ emitted.renderer = "JSONRenderer"

\* C16: in Structured mode every line emitted through the structured backend
\* carries the fields event, level, timestamp and logger, whether or not the
\* emitting logger was obtained with a logger name.
C16_RequiredFieldsOnEveryLine ==
    StructuredLine
        => \A k \in {"event", "level", "timestamp", "logger"} : HasKey(emitted.event, k)

\* What holds: event, level and timestamp are on every such line; logger is
\* there exactly when the logger was obtained with a non-empty logger_name
\* (and is that name) or the event brought a logger field of its own.
C16_LoggerFieldOnlyWhenNamed ==
    StructuredLine
        => /\ \A k \in {"event", "level", "timestamp"} : HasKey(emitted.event, k)
           /\ ~HasKey(emitted.event, "logger_name")
           /\ HasKey(emitted.event, "logger")
                <=> (Truthy(Get(emitted.input, "logger_name"))
                     \/ HasKey(emitted.input, "logger"))
           /\ (Truthy(Get(emitted.input, "logger_name")) /\ ~HasKey(emitted.input, "logger"))
                => Get(emitted.event, "logger") = Get(emitted.input, "logger_name")

\* A line from a logger obtained without a name: no logger field.
C16_Witness ==
    /\ StructuredLine
    /\ emitted.path = "structlog"
    /\ ~HasKey(emitted.input, "logger_name")
    /\ ~HasKey(emitted.event, "logger")
    /\ HasKey(emitted.event, "timestamp")

----------------------------------------------------------------------------
(* The memoized builder across configure_logging calls *)

\* C17: across any sequence of configure_logging calls (whatever their
\* level and destination), every call for one mode gets the identical
\* processor list and named sub-objects from logging_processors: once a
\* Pipeline is stored for a mode no call replaces it or changes its
\* contents, no second Pipeline is ever wired in for that mode, and both
\* backends are wired to the stored one.
C17_BuilderMemoizedPerMode ==
    [][ /\ \A m \in Modes :
              /\ processors_cache[m] # NoPipe => processors_cache'[m] = processors_cache[m]
              /\ Cardinality(built_for'[m]) <= 1
        /\ (last'.op = "configure" /\ last'.outcome = "built")
              => /\ structlog_cfg'.pipe = processors_cache'[last'.pretty]
                 /\ stdlib_cfg'.pipe = processors_cache'[last'.pretty].id
                 /\ processors_cache'[last'.pretty].processors
                        = ProcessorList(last'.pretty, has_exc_group)
                 /\ processors_cache'[last'.pretty].named
                        = NamedHandles(last'.pretty, has_exc_group)
      ]_vars

\* configure_logging ran its body three times for Structured mode with
\* three different level/destination arguments, on one Pipeline.
C17_Witness ==
    /\ Cardinality({k \in configure_cache : ~k[1]}) = 3
    /\ built_for[FALSE] = {processors_cache[FALSE].id}
    /\ structlog_cfg.pipe = processors_cache[FALSE]

----------------------------------------------------------------------------
(* The configuration in force after a call *)

\* C18: after every successful configure_logging(mode, level, destination),
\* in any sequence of configure_logging calls, both backends are configured
\* with the mode, level and destination of this call, also when the call
\* repeats the arguments of an earlier one after a different configuration
\* was applied.
C18_LastCallIsInForce ==
    Configured
        => /\ structlog_cfg.pipe.pretty = last.pretty
           /\ structlog_cfg.lvl = NAME_TO_LEVEL(Lower(last.level))
           /\ (~last.pretty => structlog_cfg.factory = "bytes:" \o last.output)
           /\ stdlib_cfg.formatter = (IF last.pretty THEN "colored" ELSE "plain")
           /\ stdlib_cfg.level = Upper(last.level)
           /\ stdlib_cfg.handler
                  = (IF last.output # "None" THEN "to_supervisor" ELSE "default")

\* What holds: the configuration in force is that of the last call that ran
\* the body of configure_logging.
C18_LastBuiltCallIsInForce ==
    (Configured /\ last.outcome = "built") => C18_LastCallIsInForce

----------------------------------------------------------------------------
(* The saved handler *)

\* C19: in every reachable state the saved previous-handler reference is not
\* the warning bridge itself.
C19_SavedHandlerIsNotBridge == saved_showwarning # BRIDGE

----------------------------------------------------------------------------
(* The logger-name normalizer *)

\* The fields of an event other than logger_name and logger, in order.
OtherFields(ev) == Remove(Remove(ev, "logger_name"), "logger")

\* C20: the result of logger_name never contains logger_name; if the event
\* carried logger_name and had no logger field, logger is set to that name;
\* if logger was already set its value is kept; every other field is
\* unchanged.
C20_LoggerNameNormalized ==
    proc_name = "logger_name"
        => /\ ~HasKey(proc_out, "logger_name")
           /\ (HasKey(proc_in, "logger_name") /\ ~HasKey(proc_in, "logger"))
                => /\ HasKey(proc_out, "logger")
                   /\ Get(proc_out, "logger") = Get(proc_in, "logger_name")
           /\ HasKey(proc_in, "logger")
                => /\ HasKey(proc_out, "logger")
                   /\ Get(proc_out, "logger") = Get(proc_in, "logger")
           /\ OtherFields(proc_out) = OtherFields(proc_in)

\* What holds: logger is set from logger_name only when that name is truthy;
\* a logger_name of None or "" is removed and no logger field is added.
C20_TruthyNameBecomesLogger ==
    proc_name = "logger_name"
        => LET name == Get(proc_in, "logger_name")
               rest == Remove(proc_in, "logger_name")
           IN  /\ ~HasKey(proc_out, "logger_name")
               /\ (Truthy(name) /\ ~HasKey(proc_in, "logger"))
                    => proc_out = Append(rest, [k |-> "logger", v |-> name])
               /\ (~Truthy(name) \/ HasKey(proc_in, "logger"))
                    => proc_out = rest

\* An empty logger_name was removed and no logger field added.
C20_Witness ==
    /\ proc_name = "logger_name"
    /\ HasKey(proc_in, "logger_name")
    /\ Get(proc_in, "logger_name") = Str(<< >>)
    /\ Len(proc_in) = 2
    /\ ~HasKey(proc_out, "logger")
    /\ Len(proc_out) = 1

====
